---- MODULE Spec2Model ----
(***************************************************************************)
(* UNO "No Mercy" turn engine (src/uno.py): cards and the matching rule,   *)
(* the deck with its draw and discard piles, the players' hands and        *)
(* decision policies, and the game loop of Game.start.                     *)
(*                                                                         *)
(* Representation.  Card objects are compared by identity in the source    *)
(* (Card defines no __eq__), so a card carries a copy number that makes    *)
(* the two RED FIVEs different values.  The draw pile is a deque whose     *)
(* order is fixed by random.shuffle and only ever read by popleft, so it   *)
(* is kept as the set of its cards and popleft takes any one of them.  A   *)
(* hand is a list whose order comes from the order of the draws; it is     *)
(* kept as the set of its cards and "the first card of the hand that ..."  *)
(* is any card of the hand that ...                                        *)
(***************************************************************************)
EXTENDS Integers, Sequences, FiniteSets, TLC

(* ------------------------------ bounds -------------------------------- *)

\* standard colours that have cards in the deck (4 in Deck._build)
NumColors == 2

\* number ranks after ZERO that are in the deck (9 in Deck._build)
NumNumbers == 0

\* copies of each non-ZERO coloured card (2 in Deck._build)
Copies == 1

\* copies of WILD and of WILD_DRAW_FOUR (4 in Deck._build)
WildCopies == 1

\* cards dealt to each player (7 in Game.start)
DealCount == 2

\* largest player_count given to Game
MaxPlayers == 2

\* moves the game loop processes before the model stops following the game
MaxTurns == 3

\* longest discard pile and largest draw pile a directly driven Deck starts with
MaxDiscard == 3

MaxDrawPile == 1

\* players of the game played with the short deck
ShortPlayers == 3

\* moves the game loop processes in the game played with the short deck
ShortTurns == 4

(* ------------------------------ colours ------------------------------- *)

RED == "RED"

YELLOW == "YELLOW"

GREEN == "GREEN"

BLUE == "BLUE"

WILD_COLOR == "WILD"

STANDARD == <<RED, YELLOW, GREEN, BLUE>>

(* ------------------------------- ranks -------------------------------- *)

SKIP == "SKIP"

REVERSE == "REVERSE"

DRAW_TWO == "DRAW_TWO"

WILD == "WILD"

WILD_DRAW_FOUR == "WILD_DRAW_FOUR"

NUMBERS == <<"ZERO", "ONE", "TWO", "THREE", "FOUR", "FIVE", "SIX", "SEVEN", "EIGHT", "NINE">>

ACTION_RANKS == <<SKIP, REVERSE, DRAW_TWO>>

WILDS == <<WILD, WILD_DRAW_FOUR>>

Range(s) == {s[i] : i \in DOMAIN s}

Min(a, b) == IF a < b THEN a ELSE b

is_wild(rank) == rank \in Range(WILDS)

(* ------------------------------- cards -------------------------------- *)

Card(color, rank, copy) == [color |-> color, rank |-> rank, copy |-> copy]

\* Python's None where a Card is expected
NoCard == [color |-> "None", rank |-> "None", copy |-> 0]

\* a matches that compares with the wild top card's own colour
matches_top_color(self, top_card, active_color) ==
    IF is_wild(self.rank)
    THEN TRUE
    ELSE self.color = top_card.color \/ self.rank = top_card.rank

\* Card.matches
matches(self, top_card, active_color) ==
    IF is_wild(self.rank)
    THEN TRUE
    ELSE IF is_wild(top_card.rank)
         THEN self.color = active_color \/ self.rank = top_card.rank
         ELSE self.color = top_card.color \/ self.rank = top_card.rank

(* -------------------------------- deck -------------------------------- *)

\* the cards Deck._build creates, within the bounds
BuildCards ==
    LET colors == {STANDARD[i] : i \in 1..Min(NumColors, 4)}
        repeated == {NUMBERS[i] : i \in 2..Min(NumNumbers + 1, 10)} \cup Range(ACTION_RANKS)
    IN  {Card(c, "ZERO", 1) : c \in colors}
        \cup {Card(c, r, k) : c \in colors, r \in repeated, k \in 1..Copies}
        \cup {Card(WILD_COLOR, r, k) : r \in Range(WILDS), k \in 1..WildCopies}

\* a deck is [draw |-> set of cards, disc |-> sequence of cards, front = top]

\* a reshuffle that forgets discard_pile.clear(): the recycled cards stay in
\* the discard pile as well
reshuffle_without_clear(d) ==
    IF d.disc = <<>>
    THEN d
    ELSE [draw |-> d.draw \cup Range(Tail(d.disc)), disc |-> d.disc]

\* a reshuffle that recycles the top card with the rest
reshuffle_with_top(d) ==
    IF d.disc = <<>>
    THEN d
    ELSE [draw |-> d.draw \cup Range(d.disc), disc |-> <<>>]

\* Deck._reshuffle_from_discard
reshuffle_from_discard(d) ==
    IF d.disc = <<>>
    THEN d
    ELSE [draw |-> d.draw \cup Range(Tail(d.disc)), disc |-> <<Head(d.disc)>>]

\* Deck.draw: the possible outcomes [card, draw, disc]; card = NoCard for None
deck_draw(d) ==
    LET d1 == IF d.draw = {} THEN reshuffle_from_discard(d) ELSE d
    IN  IF d1.draw = {}
        THEN {[card |-> NoCard, draw |-> d1.draw, disc |-> d1.disc]}
        ELSE {[card |-> c, draw |-> d1.draw \ {c}, disc |-> d1.disc] : c \in d1.draw}

\* Deck.discard
deck_discard(d, card) == [d EXCEPT !.disc = <<card>> \o d.disc]

\* Deck.top_discard
top_discard(d) == Head(d.disc)

(* ------------------------------ players ------------------------------- *)

\* a Player.draw without its "if c": the None of an exhausted deck is
\* appended to the hand
RECURSIVE player_draw_appends_none(_, _, _)
player_draw_appends_none(hand, d, count) ==
    IF count = 0
    THEN {[hand |-> hand, draw |-> d.draw, disc |-> d.disc]}
    ELSE IF d.draw = {}
         THEN LET d1 == reshuffle_from_discard(d)
              IN  IF d1.draw = {}
                  THEN {[hand |-> hand \cup {NoCard}, draw |-> d1.draw, disc |-> d1.disc]}
                  ELSE player_draw_appends_none(hand, d1, count)
         ELSE LET k == Min(count, Cardinality(d.draw))
              IN  UNION {player_draw_appends_none(hand \cup taken,
                                                  [draw |-> d.draw \ taken, disc |-> d.disc],
                                                  count - k)
                         : taken \in {t \in SUBSET d.draw : Cardinality(t) = k}}

\* Player.draw: the possible outcomes [hand, draw, disc] of count calls of
\* Deck.draw, each card returned being appended to the hand.  The calls that
\* find the draw pile non-empty are taken together: k calls of popleft on a
\* shuffled pile of at least k cards take any k of its cards.  A call that
\* finds the pile empty reshuffles; if the pile is still empty it returns None,
\* and so does every later call.
RECURSIVE player_draw(_, _, _)
player_draw(hand, d, count) ==
    IF count = 0
    THEN {[hand |-> hand, draw |-> d.draw, disc |-> d.disc]}
    ELSE IF d.draw = {}
         THEN LET d1 == reshuffle_from_discard(d)
              IN  IF d1.draw = {}
                  THEN {[hand |-> hand, draw |-> d1.draw, disc |-> d1.disc]}
                  ELSE player_draw(hand, d1, count)
         ELSE LET k == Min(count, Cardinality(d.draw))
              IN  UNION {player_draw(hand \cup taken,
                                     [draw |-> d.draw \ taken, disc |-> d.disc],
                                     count - k)
                         : taken \in {t \in SUBSET d.draw : Cardinality(t) = k}}

\* Player.count_color
count_color(hand, color) == Cardinality({c \in hand : c.color = color})

\* Player.has_color
has_color(hand, color) == \E c \in hand : ~is_wild(c.rank) /\ c.color = color

\* the first entry with the largest count, as max() over the dict's items
\* in insertion order RED, YELLOW, GREEN, BLUE returns it
MostHeldColor(hand) ==
    LET best == CHOOSE i \in 1..4 :
                    /\ \A j \in 1..4 : count_color(hand, STANDARD[j]) <= count_color(hand, STANDARD[i])
                    /\ \A j \in 1..(i - 1) : count_color(hand, STANDARD[j]) < count_color(hand, STANDARD[i])
    IN  STANDARD[best]

\* AggressiveAI._best_color_choice
best_color_choice(hand) == MostHeldColor(hand)

\* a colour choice whose ties go to the last of RED, YELLOW, GREEN, BLUE
choose_color_auto_last_tie(hand) ==
    LET best == CHOOSE i \in 1..4 :
                    /\ \A j \in 1..4 : count_color(hand, STANDARD[j]) <= count_color(hand, STANDARD[i])
                    /\ \A j \in (i + 1)..4 : count_color(hand, STANDARD[j]) < count_color(hand, STANDARD[i])
    IN  STANDARD[best]

\* Game._choose_color_auto
choose_color_auto(hand) == MostHeldColor(hand)

(* ------------------------------- moves -------------------------------- *)

PLAY == "PLAY"

DRAW == "DRAW"

INVALID == "INVALID"

\* Move.play
MovePlay(card, chosen_color, challenge) ==
    [type |-> PLAY, card |-> card, chosen_color |-> chosen_color, challenge |-> challenge]

\* Move.draw
MoveDraw == [type |-> DRAW, card |-> NoCard, chosen_color |-> "None", challenge |-> FALSE]

\* Move.invalid
MoveInvalid == [type |-> INVALID, card |-> NoCard, chosen_color |-> "None", challenge |-> FALSE]

\* the value of `move` before any move was made
NoMove == [type |-> "None", card |-> NoCard, chosen_color |-> "None", challenge |-> FALSE]

(* ------------------------------- state -------------------------------- *)

VARIABLES
    pc,             \* where Game.start is: "deal", "start_discard", "initial_effect", "turn", "over", "error"
    player_count,   \* Game.player_count
    no_mercy,       \* Game.no_mercy / GameState.no_mercy
    draw_pile,      \* Deck.draw_pile
    discard_pile,   \* Deck.discard_pile, front = top
    hands,          \* players[i].hand, i = 0 is the HumanPlayer, the others are AggressiveAI
    current_index,  \* GameState.current_index
    direction,      \* GameState.direction
    active_color,   \* GameState.active_color
    pending_draw,   \* GameState.pending_draw
    move,           \* the move the loop processed last
    turns,          \* number of moves processed
    ret             \* the value returned by the last direct call of Card.matches or Deck.draw

vars == <<pc, player_count, no_mercy, draw_pile, discard_pile, hands, current_index,
          direction, active_color, pending_draw, move, turns, ret>>

Players == 0..(player_count - 1)

\* isinstance(players[i], AggressiveAI): Game.start puts the HumanPlayer first
IsAI(i) == i # 0

\* the GameState with its deck and hands, as one value
State ==
    [hands |-> hands, draw |-> draw_pile, disc |-> discard_pile,
     current_index |-> current_index, direction |-> direction,
     active_color |-> active_color, pending_draw |-> pending_draw]

DeckOf(s) == [draw |-> s.draw, disc |-> s.disc]

\* GameState.next_player
next_player(s) == (s.current_index + s.direction) % Cardinality(DOMAIN s.hands)

\* an advance_turn that always counts upwards
advance_turn_upwards(s, steps) ==
    [s EXCEPT !.current_index = (s.current_index + steps) % Cardinality(DOMAIN s.hands)]

\* GameState.advance_turn
advance_turn(s, steps) ==
    [s EXCEPT !.current_index = (s.current_index + steps * s.direction) % Cardinality(DOMAIN s.hands)]

\* GameState.reverse
reverse(s) == [s EXCEPT !.direction = s.direction * (-1)]

\* s after player p drew count cards: every possible outcome
DrawInto(s, p, count) ==
    {[s EXCEPT !.hands[p] = o.hand, !.draw = o.draw, !.disc = o.disc]
        : o \in player_draw(s.hands[p], DeckOf(s), count)}

(* --------------------------- play application ------------------------- *)

\* Game._player_had_active_color_before_wdf, on the hand and active colour
\* that _play_card hands it
player_had_active_color_before_wdf(hand, active) ==
    \E c \in hand : ~is_wild(c.rank) /\ c.color = active

\* a REVERSE that always advances 1 step
play_reverse_one_step(s1) == advance_turn(reverse(s1), 1)

\* Game._play_card, the REVERSE branch
play_reverse(s1) ==
    IF Cardinality(DOMAIN s1.hands) = 2
    THEN advance_turn(reverse(s1), 2)
    ELSE advance_turn(reverse(s1), 1)

\* a WILD_DRAW_FOUR branch in which only the move's flag raises a challenge
play_wild_draw_four_flag_only(s1, p, challenge_flag) ==
    LET opponent == next_player(s1)
        illegal == player_had_active_color_before_wdf(s1.hands[p], s1.active_color)
    IN  IF challenge_flag
        THEN IF illegal
             THEN {advance_turn(s2, 1) : s2 \in DrawInto(s1, p, 4)}
             ELSE {advance_turn(s2, 1) : s2 \in DrawInto(s1, opponent, 6)}
        ELSE {advance_turn([s1 EXCEPT !.pending_draw = s1.pending_draw + 4], 1)}

\* Game._play_card, the WILD_DRAW_FOUR branch, entered with the card already
\* discarded and active_color already set to the chosen colour
play_wild_draw_four(s1, p, challenge_flag) ==
    LET opponent == next_player(s1)
        illegal == player_had_active_color_before_wdf(s1.hands[p], s1.active_color)
        opponent_challenges == IsAI(opponent) \/ challenge_flag
    IN  IF opponent_challenges
        THEN IF illegal
             THEN {advance_turn(s2, 1) : s2 \in DrawInto(s1, p, 4)}
             ELSE {advance_turn(s2, 1) : s2 \in DrawInto(s1, opponent, 6)}
        ELSE {advance_turn([s1 EXCEPT !.pending_draw = s1.pending_draw + 4], 1)}

\* Game._play_card: every state it can leave, for player p of state s
play_card(s, p, card, chosen_color, challenge_flag) ==
    LET s1 == [s EXCEPT !.hands[p] = s.hands[p] \ {card},
                        !.disc = deck_discard(DeckOf(s), card).disc,
                        !.active_color = IF is_wild(card.rank) THEN chosen_color
                                         ELSE s.active_color]
    IN  CASE card.rank = SKIP -> {advance_turn(s1, 2)}
          [] card.rank = REVERSE -> {play_reverse(s1)}
          [] card.rank = DRAW_TWO ->
                {advance_turn([s1 EXCEPT !.pending_draw = s1.pending_draw + 2], 1)}
          [] card.rank = WILD -> {advance_turn(s1, 1)}
          [] card.rank = WILD_DRAW_FOUR -> play_wild_draw_four(s1, p, challenge_flag)
          [] OTHER -> {advance_turn(s1, 1)}

\* Game._check_win
check_win(hand) == hand = {}

(* ------------------------------ policies ------------------------------ *)

\* a HumanPlayer.choose_move without the stacking test
HumanMoves_without_stack_test(s) ==
    LET hand == s.hands[s.current_index]
        top == Head(s.disc)
        of(chosen) ==
            IF ~matches(chosen, top, s.active_color)
            THEN {MoveInvalid}
            ELSE IF is_wild(chosen.rank)
                 THEN {MovePlay(chosen, c, FALSE) : c \in Range(STANDARD)}
                 ELSE {MovePlay(chosen, s.active_color, FALSE)}
    IN  {MoveDraw} \cup UNION {of(chosen) : chosen \in hand}

\* HumanPlayer.choose_move: the moves the prompts can produce
HumanMoves(s) ==
    LET hand == s.hands[s.current_index]
        top == Head(s.disc)
        of(chosen) ==
            IF ~matches(chosen, top, s.active_color)
            THEN {MoveInvalid}
            ELSE IF s.pending_draw > 0 /\ chosen.rank \notin {DRAW_TWO, WILD_DRAW_FOUR}
                 THEN {MoveInvalid}
                 ELSE IF is_wild(chosen.rank)
                      THEN {MovePlay(chosen, c, FALSE) : c \in Range(STANDARD)}
                      ELSE {MovePlay(chosen, s.active_color, FALSE)}
    IN  {MoveDraw} \cup UNION {of(chosen) : chosen \in hand}

\* AggressiveAI._best_stack_card: the cards that can be the first stack card
best_stack_card(hand) == {c \in hand : c.rank \in {DRAW_TWO, WILD_DRAW_FOUR}}

\* AggressiveAI.choose_move: the moves it can return, over the orders of the hand
AIMoves(s) ==
    LET hand == s.hands[s.current_index]
        top == Head(s.disc)
        legal_wdf == ~has_color(hand, s.active_color)
        matching == {c \in hand : matches(c, top, s.active_color)}
        \* cards the loop returns on
        returned == {c \in matching : \/ c.rank = WILD_DRAW_FOUR /\ legal_wdf
                                      \/ c.rank \in {DRAW_TWO, SKIP, REVERSE}}
        colored(c) == IF is_wild(c.rank) THEN best_color_choice(hand) ELSE s.active_color
    IN  IF s.pending_draw > 0
        THEN IF best_stack_card(hand) # {}
             THEN {MovePlay(c, colored(c), TRUE) : c \in best_stack_card(hand)}
             ELSE {MoveDraw}
        ELSE IF returned # {}
             THEN {MovePlay(c, colored(c), c.rank = WILD_DRAW_FOUR) : c \in returned}
             ELSE IF matching # {}
                  THEN {MovePlay(c, colored(c), FALSE) : c \in matching}
                  ELSE {MoveDraw}

\* current.choose_move(state)
choose_move(s) == IF IsAI(s.current_index) THEN AIMoves(s) ELSE HumanMoves(s)

(* ------------------------------ game loop ----------------------------- *)

\* the state variables take the values of s
Becomes(s) ==
    /\ hands' = s.hands
    /\ draw_pile' = s.draw
    /\ discard_pile' = s.disc
    /\ current_index' = s.current_index
    /\ direction' = s.direction
    /\ active_color' = s.active_color
    /\ pending_draw' = s.pending_draw

\* Game(player_count, no_mercy) and the first lines of Game.start: the deck is
\* built, the players and the GameState are created
Init ==
    /\ pc = "deal"
    /\ player_count \in 2..MaxPlayers
    /\ no_mercy \in BOOLEAN
    /\ draw_pile = BuildCards
    /\ discard_pile = <<>>
    /\ hands = [i \in 0..(player_count - 1) |-> {}]
    /\ current_index = 0
    /\ direction = 1
    /\ active_color = "None"
    /\ pending_draw = 0
    /\ move = NoMove
    /\ turns = 0
    /\ ret = "None"

\* the states after players i, i+1, ... drew their DealCount cards
RECURSIVE DealFrom(_, _)
DealFrom(s, i) ==
    IF i = Cardinality(DOMAIN s.hands)
    THEN {s}
    ELSE UNION {DealFrom(s2, i + 1) : s2 \in DrawInto(s, i, DealCount)}

\* Game.start, "Deal"
Deal ==
    /\ pc = "deal"
    /\ \E s2 \in DealFrom(State, 0) : Becomes(s2)
    /\ pc' = "start_discard"
    /\ UNCHANGED <<player_count, no_mercy, move, turns, ret>>

\* Deck.start_discard_non_wild: the decks it can leave.  A None returned by
\* draw() is discarded like a card before c.rank fails on it.
RECURSIVE start_discard_non_wild(_)
start_discard_non_wild(d) ==
    UNION {IF is_wild(o.card.rank)
           THEN start_discard_non_wild(deck_discard([draw |-> o.draw, disc |-> o.disc], o.card))
           ELSE {deck_discard([draw |-> o.draw, disc |-> o.disc], o.card)}
           : o \in deck_draw(d)}

\* Game.start, "Start discard".  The discard pile is empty here, so the loop
\* of start_discard_non_wild ends on the first non-wild card of the draw
\* pile.  With no such card and at most 1 card in the draw pile, draw()
\* returns None after the wild card was discarded, None is discarded and
\* c.rank raises AttributeError: the piles stay as the loop left them and
\* line 323 is not reached.  With 2 or more cards, all wild, the loop draws,
\* discards and recycles them for ever and the call never returns: no step.
StartDiscard ==
    /\ pc = "start_discard"
    /\ (\E c \in draw_pile : ~is_wild(c.rank)) \/ Cardinality(draw_pile) <= 1
    /\ \E d \in start_discard_non_wild(DeckOf(State)) :
         /\ draw_pile' = d.draw
         /\ discard_pile' = d.disc
         /\ IF top_discard(d) # NoCard
            THEN /\ active_color' = top_discard(d).color
                 /\ pc' = "initial_effect"
            ELSE /\ active_color' = active_color
                 /\ pc' = "error"
    /\ UNCHANGED <<player_count, no_mercy, hands, current_index, direction, pending_draw,
                   move, turns, ret>>

\* an initial effect that treats the opening card as a played card: SKIP
\* advances 2 steps
apply_initial_effect_as_played(start, s) ==
    CASE start.rank = SKIP -> advance_turn(s, 2)
      [] start.rank = REVERSE -> reverse(s)
      [] start.rank = DRAW_TWO -> [s EXCEPT !.pending_draw = s.pending_draw + 2]
      [] OTHER -> s

\* Game._apply_initial_effect
apply_initial_effect(start, s) ==
    CASE start.rank = SKIP -> advance_turn(s, 1)
      [] start.rank = REVERSE -> reverse(s)
      [] start.rank = DRAW_TWO -> [s EXCEPT !.pending_draw = s.pending_draw + 2]
      [] OTHER -> s

ApplyInitialEffect ==
    /\ pc = "initial_effect"
    /\ Becomes(apply_initial_effect(top_discard(DeckOf(State)), State))
    /\ pc' = "turn"
    /\ UNCHANGED <<player_count, no_mercy, move, turns, ret>>

\* an INVALID branch that also clears the pending draw
invalid_move_clears_pending(s) ==
    {advance_turn([s2 EXCEPT !.pending_draw = 0], 1) : s2 \in DrawInto(s, s.current_index, 1)}

\* the loop's INVALID branch
invalid_move(s) ==
    {advance_turn(s2, 1) : s2 \in DrawInto(s, s.current_index, 1)}

\* an absorption that draws a single card
absorb_one_card(s) ==
    {[s2 EXCEPT !.pending_draw = 0] : s2 \in DrawInto(s, s.current_index, 1)}

\* the loop's DRAW branch with pending_draw > 0
absorb_pending(s) ==
    {[s2 EXCEPT !.pending_draw = 0] : s2 \in DrawInto(s, s.current_index, s.pending_draw)}

\* a DRAW branch in which no_mercy forces a held matching card to be played
\* instead of drawing
draw_one_forced_play(s, mercy) ==
    LET current == s.current_index
        held == {c \in s.hands[current] : matches(c, Head(s.disc), s.active_color)}
    IN  IF mercy /\ held # {}
        THEN UNION {play_card(s, current, c,
                              IF is_wild(c.rank)
                              THEN choose_color_auto(s.hands[current])
                              ELSE s.active_color,
                              FALSE)
                    : c \in held}
        ELSE {advance_turn(s2, 1) : s2 \in DrawInto(s, current, 1)}

\* the loop's DRAW branch with pending_draw = 0
draw_one(s, mercy) ==
    LET current == s.current_index
    IN  UNION {
          LET drawn == o.card
              s1 == [s EXCEPT !.draw = o.draw, !.disc = o.disc]
          IN  IF drawn # NoCard /\ matches(drawn, Head(s1.disc), s1.active_color) /\ mercy
              THEN LET s2 == [s1 EXCEPT !.hands[current] = s1.hands[current] \cup {drawn}]
                   IN  play_card(s2, current, drawn,
                                 IF is_wild(drawn.rank)
                                 THEN choose_color_auto(s2.hands[current])
                                 ELSE s2.active_color,
                                 FALSE)
              ELSE {advance_turn(
                       IF drawn # NoCard
                       THEN [s1 EXCEPT !.hands[current] = s1.hands[current] \cup {drawn}]
                       ELSE s1, 1)}
          : o \in deck_draw(DeckOf(s))}

\* the loop's DRAW branch
draw_move(s, mercy) ==
    IF s.pending_draw > 0 THEN absorb_pending(s) ELSE draw_one(s, mercy)

\* a PLAY branch whose failed validation costs the penalty card of an
\* INVALID move
play_move_with_penalty(s, m) ==
    LET current == s.current_index
    IN  IF m.card \notin s.hands[current]
        THEN invalid_move(s)
        ELSE IF ~matches(m.card, Head(s.disc), s.active_color)
             THEN invalid_move(s)
             ELSE play_card(s, current, m.card,
                            IF is_wild(m.card.rank) THEN m.chosen_color ELSE s.active_color,
                            m.challenge)

\* the loop's PLAY branch
play_move(s, m) ==
    LET current == s.current_index
    IN  IF m.card \notin s.hands[current]
        THEN {advance_turn(s, 1)}
        ELSE IF ~matches(m.card, Head(s.disc), s.active_color)
             THEN {advance_turn(s, 1)}
             ELSE play_card(s, current, m.card,
                            IF is_wild(m.card.rank) THEN m.chosen_color ELSE s.active_color,
                            m.challenge)

\* a win test applied to the player whose turn is next
AfterMoveOfNext(s2, p) == IF check_win(s2.hands[s2.current_index]) THEN "over" ELSE "turn"

\* after a DRAW or PLAY move of player p: _check_win(current) ends the loop
AfterMove(s2, p) == IF check_win(s2.hands[p]) THEN "over" ELSE "turn"

TurnInvalidWithin(cap) ==
    /\ pc = "turn"
    /\ turns < cap
    /\ \E m \in choose_move(State) :
         /\ m.type = INVALID
         /\ move' = m
         /\ \E s2 \in invalid_move(State) : Becomes(s2)
    /\ pc' = "turn"
    /\ turns' = turns + 1
    /\ UNCHANGED <<player_count, no_mercy, ret>>

TurnDrawWithin(cap) ==
    /\ pc = "turn"
    /\ turns < cap
    /\ \E m \in choose_move(State) :
         /\ m.type = DRAW
         /\ move' = m
         /\ \E s2 \in draw_move(State, no_mercy) :
              /\ Becomes(s2)
              /\ pc' = AfterMove(s2, current_index)
    /\ turns' = turns + 1
    /\ UNCHANGED <<player_count, no_mercy, ret>>

TurnPlayWithin(cap) ==
    /\ pc = "turn"
    /\ turns < cap
    /\ \E m \in choose_move(State) :
         /\ m.type = PLAY
         /\ move' = m
         /\ \E s2 \in play_move(State, m) :
              /\ Becomes(s2)
              /\ pc' = AfterMove(s2, current_index)
    /\ turns' = turns + 1
    /\ UNCHANGED <<player_count, no_mercy, ret>>

\* the three branches of the loop body, followed for MaxTurns moves
TurnInvalid == TurnInvalidWithin(MaxTurns)

TurnDraw == TurnDrawWithin(MaxTurns)

TurnPlay == TurnPlayWithin(MaxTurns)

Next ==
    \/ Deal
    \/ StartDiscard
    \/ ApplyInitialEffect
    \/ TurnInvalid
    \/ TurnDraw
    \/ TurnPlay

Spec == Init /\ [][Next]_vars

(* --------------- a game of 3 players with a short deck ---------------- *)

\* the deck of the short game: after the deal to ShortPlayers players and
\* the opening discard its draw pile is empty
ShortCards ==
    {Card(RED, "ZERO", 1), Card(RED, SKIP, 1), Card(RED, REVERSE, 1),
     Card(YELLOW, "ZERO", 1), Card(YELLOW, DRAW_TWO, 1),
     Card(WILD_COLOR, WILD, 1), Card(WILD_COLOR, WILD_DRAW_FOUR, 1)}

\* Game(ShortPlayers, no_mercy) and the first lines of Game.start
InitShort ==
    /\ pc = "deal"
    /\ player_count = ShortPlayers
    /\ no_mercy \in BOOLEAN
    /\ draw_pile = ShortCards
    /\ discard_pile = <<>>
    /\ hands = [i \in 0..(player_count - 1) |-> {}]
    /\ current_index = 0
    /\ direction = 1
    /\ active_color = "None"
    /\ pending_draw = 0
    /\ move = NoMove
    /\ turns = 0
    /\ ret = "None"

\* the three branches of the loop body, followed for ShortTurns moves
TurnInvalidShort == TurnInvalidWithin(ShortTurns)

TurnDrawShort == TurnDrawWithin(ShortTurns)

TurnPlayShort == TurnPlayWithin(ShortTurns)

NextShort ==
    \/ Deal
    \/ StartDiscard
    \/ ApplyInitialEffect
    \/ TurnInvalidShort
    \/ TurnDrawShort
    \/ TurnPlayShort

SpecShort == InitShort /\ [][NextShort]_vars

(* ------------------- Card.matches, called directly -------------------- *)

\* every card value Deck._build creates in the full deck
AllCardValues ==
    {Card(c, r, 1) : c \in Range(STANDARD), r \in Range(NUMBERS) \cup Range(ACTION_RANKS)}
    \cup {Card(WILD_COLOR, r, 1) : r \in Range(WILDS)}

\* the variables no direct call touches
Idle ==
    /\ player_count = 2
    /\ no_mercy = TRUE
    /\ hands = [i \in 0..1 |-> {}]
    /\ current_index = 0
    /\ direction = 1
    /\ pending_draw = 0
    /\ turns = 0

\* move.card is the candidate, the discard pile holds the top card
InitMatches ==
    /\ Idle
    /\ pc = "matches_call"
    /\ move \in {MovePlay(c, "None", FALSE) : c \in AllCardValues}
    /\ discard_pile \in {<<t>> : t \in AllCardValues}
    /\ draw_pile = {}
    /\ active_color \in Range(STANDARD)
    /\ ret = FALSE

CallMatches ==
    /\ pc = "matches_call"
    /\ ret' = matches(move.card, Head(discard_pile), active_color)
    /\ pc' = "matches_returned"
    /\ UNCHANGED <<player_count, no_mercy, draw_pile, discard_pile, hands, current_index,
                   direction, active_color, pending_draw, move, turns>>

SpecMatches == InitMatches /\ [][CallMatches]_vars

(* ---------------------- a Deck, driven directly ----------------------- *)

\* sequences without repetition of at most n cards of set S
RECURSIVE Piles(_, _)
Piles(S, n) ==
    IF n = 0
    THEN {<<>>}
    ELSE {<<>>} \cup UNION {{<<c>> \o t : t \in Piles(S \ {c}, n - 1)} : c \in S}

\* the cards of the directly driven deck: the first copies of the RED and
\* the wild cards
PileCards == {c \in BuildCards : c.color \in {RED, WILD_COLOR} /\ c.copy = 1}

\* sets of at most n cards of set S
RECURSIVE Subsets(_, _)
Subsets(S, n) ==
    IF n = 0
    THEN {{}}
    ELSE {{}} \cup UNION {{{c} \cup t : t \in Subsets(S \ {c}, n - 1)} : c \in S}

\* a deck the rest of whose cards are held elsewhere: a draw pile of at most
\* MaxDrawPile cards and a discard pile of at most MaxDiscard cards
InitDeck ==
    /\ Idle
    /\ pc = "deck"
    /\ move = NoMove
    /\ active_color = "None"
    /\ draw_pile \in Subsets(PileCards, MaxDrawPile)
    /\ discard_pile \in Piles(PileCards \ draw_pile, MaxDiscard)
    /\ ret = NoCard

\* c = deck.draw(); turns counts the calls
DeckDraw ==
    /\ pc = "deck"
    /\ turns < MaxTurns
    /\ \E o \in deck_draw(DeckOf(State)) :
         /\ draw_pile' = o.draw
         /\ discard_pile' = o.disc
         /\ ret' = o.card
    /\ pc' = "deck_drawn"
    /\ turns' = turns + 1
    /\ UNCHANGED <<player_count, no_mercy, hands, current_index, direction, active_color,
                   pending_draw, move>>

\* deck.discard(c) of the card just drawn
DeckDiscard ==
    /\ pc = "deck_drawn"
    /\ ret # NoCard
    /\ discard_pile' = deck_discard(DeckOf(State), ret).disc
    /\ ret' = NoCard
    /\ pc' = "deck"
    /\ UNCHANGED <<player_count, no_mercy, draw_pile, hands, current_index, direction,
                   active_color, pending_draw, move, turns>>

\* the rest of Player.draw, for player 0: the card just drawn is appended to
\* the hand, None is not
DeckKeep ==
    /\ pc = "deck_drawn"
    /\ hands' = IF ret # NoCard THEN [hands EXCEPT ![0] = @ \cup {ret}] ELSE hands
    /\ ret' = NoCard
    /\ pc' = "deck"
    /\ UNCHANGED <<player_count, no_mercy, draw_pile, discard_pile, current_index,
                   direction, active_color, pending_draw, move, turns>>

NextDeck == DeckDraw \/ DeckDiscard \/ DeckKeep

SpecDeck == InitDeck /\ [][NextDeck]_vars

(* ------------------------------ helpers ------------------------------- *)

\* the cards of every hand
AllHands == UNION {hands[i] : i \in DOMAIN hands}

\* number of cards in all hands
RECURSIVE HandTotal(_)
HandTotal(i) == IF i < 0 THEN 0 ELSE Cardinality(hands[i]) + HandTotal(i - 1)

\* the step processes one move of the game loop
MoveStep == pc = "turn" /\ turns' = turns + 1

\* the step processes a PLAY of a card of this rank that passes validation
Plays(rank) ==
    /\ MoveStep
    /\ move'.type = PLAY
    /\ move'.card.rank = rank
    /\ move'.card \in hands[current_index]
    /\ matches(move'.card, Head(discard_pile), active_color)

\* cards a draw can still supply once card has been put on the discard pile
Available == Cardinality(draw_pile) + Len(discard_pile)

\* the player after the current one, before the move
Opponent == next_player(State)

\* a challenge is raised against the WILD_DRAW_FOUR of this step
ChallengeRaised == IsAI(Opponent) \/ move'.challenge

(* ------------------------------- claims ------------------------------- *)

\* C1  Conservation: in every state of the game the draw pile, the discard
\* pile and the hands together hold every card of the built deck exactly once.
C1_Conservation ==
    pc # "error" =>
        /\ draw_pile \cup Range(discard_pile) \cup AllHands = BuildCards
        /\ Cardinality(draw_pile) + Len(discard_pile) + HandTotal(player_count - 1)
             = Cardinality(BuildCards)

\* a WILD_DRAW_FOUR was played and challenged, and the penalty draw recycled
\* the discard pile down to its top card
C1_Witness ==
    /\ pc = "turn"
    /\ move.type = PLAY
    /\ move.card.rank = WILD_DRAW_FOUR
    /\ discard_pile = <<move.card>>
    /\ draw_pile = {}

\* C2  A challenged WILD_DRAW_FOUR played while holding a non-wild card of the
\* colour that was active before the play: whatever colour is chosen, the
\* player draws 4 cards (as many as the deck can supply), the challenger
\* draws nothing, pending_draw keeps its value and the turn advances 1 step.
C2_IllegalPlayDrawsFour ==
    [][(/\ Plays(WILD_DRAW_FOUR)
        /\ has_color(hands[current_index], active_color)
        /\ ChallengeRaised)
       => (/\ Cardinality(hands'[current_index])
                = Cardinality(hands[current_index]) - 1 + Min(4, Available)
           /\ hands'[Opponent] = hands[Opponent]
           /\ pending_draw' = pending_draw
           /\ current_index' = Opponent)]_vars

\* C3  A challenged WILD_DRAW_FOUR played while holding no non-wild card of the
\* colour that was active before the play: whatever colour is chosen, the
\* challenger draws 6 cards (as many as the deck can supply), the player
\* draws nothing and the turn advances 1 step.
C3_LegalPlayChallengerDrawsSix ==
    [][(/\ Plays(WILD_DRAW_FOUR)
        /\ ~has_color(hands[current_index], active_color)
        /\ ChallengeRaised)
       => (/\ Cardinality(hands'[Opponent])
                = Cardinality(hands[Opponent]) + Min(6, Available)
           /\ hands'[current_index] = hands[current_index] \ {move'.card}
           /\ current_index' = Opponent)]_vars

\* C4  A DRAW move that answers pending_draw > 0 advances the turn 1 step in
\* the current direction.
C4_AbsorbingEndsTurn ==
    [][(MoveStep /\ move'.type = DRAW /\ pending_draw > 0)
       => current_index' = (current_index + direction) % player_count]_vars

\* C5  A WILD_DRAW_FOUR played onto pending_draw = 2 raises pending_draw to 6
\* and nobody draws a card, whoever the next player is and whatever the
\* move's flag is.
C5_StackRaisesToSix ==
    [][(Plays(WILD_DRAW_FOUR) /\ pending_draw = 2)
       => (/\ pending_draw' = 6
           /\ \A i \in Players : hands'[i] \subseteq hands[i])]_vars

\* C6  A DRAW move made while pending_draw = k > 0 moves k cards (as many as
\* the deck can supply, the discard pile below its top being recycled when
\* the draw pile runs out) into the current player's hand, resets
\* pending_draw to 0, plays no card and changes no other hand.
C6_AbsorbDrawsPending ==
    [][(MoveStep /\ move'.type = DRAW /\ pending_draw > 0)
       => LET k == pending_draw
              got == hands'[current_index] \ hands[current_index]
          IN  /\ hands[current_index] \subseteq hands'[current_index]
              /\ Cardinality(got) = Min(k, Available - 1)
              /\ got \subseteq draw_pile \cup Range(Tail(discard_pile))
              /\ k <= Cardinality(draw_pile)
                    => got \subseteq draw_pile /\ discard_pile' = discard_pile
              /\ pending_draw' = 0
              /\ Head(discard_pile') = Head(discard_pile)
              /\ active_color' = active_color
              /\ \A i \in Players \ {current_index} : hands'[i] = hands[i]]_vars

\* the first move of the game was a DRAW that took the 2 cards of the opening
\* DRAW_TWO into the first player's hand
C6_Witness ==
    /\ turns = 1
    /\ move.type = DRAW
    /\ Head(discard_pile).rank = DRAW_TWO
    /\ pending_draw = 0
    /\ Cardinality(hands[0]) = DealCount + 2

\* C7  Win detection: a PLAY that empties the player's hand ends the game,
\* whatever the rank of the card; no move is asked for while some hand is
\* empty; the game ends only with an empty hand and takes no step after it.
C7_WinDetection ==
    /\ [][(MoveStep /\ move'.type = PLAY /\ hands'[current_index] = {})
          => pc' = "over"]_vars
    /\ [](pc = "turn" => \A i \in Players : hands[i] # {})
    /\ [](pc = "over" => \E i \in Players : hands[i] = {})
    /\ [](pc = "over" => ~ENABLED Next)

\* the game ended on a WILD_DRAW_FOUR played as a last card
C7_Witness ==
    /\ pc = "over"
    /\ move.type = PLAY
    /\ move.card.rank = WILD_DRAW_FOUR
    /\ Head(discard_pile) = move.card
    /\ \E i \in Players : hands[i] = {}

\* C9  With exactly 2 players a REVERSE leaves current_index where a SKIP
\* played from the same state leaves it, which is with the player who played;
\* REVERSE negates the direction and SKIP keeps it.
C9_ReverseIsSkipForTwo ==
    [][(player_count = 2 /\ (Plays(REVERSE) \/ Plays(SKIP)))
       => (/\ current_index' = advance_turn(State, 2).current_index
           /\ current_index' = current_index
           /\ direction' = IF move'.card.rank = REVERSE THEN -direction ELSE direction)]_vars

\* a REVERSE was played in a 2-player game whose direction was -1
C9_Witness ==
    /\ player_count = 2
    /\ pc = "turn"
    /\ move.type = PLAY
    /\ move.card.rank = REVERSE
    /\ Head(discard_pile) = move.card
    /\ direction = 1

\* C8  Matching: matches(candidate, top, active colour) is true exactly when
\* the candidate is wild, or the top is wild and the candidate has the active
\* colour or the top's rank, or the top is not wild and the candidate has the
\* top's colour or rank.
C8_MatchingCorrectness ==
    pc = "matches_returned" =>
        LET candidate == move.card
            top == Head(discard_pile)
        IN  ret <=> \/ candidate.rank \in {WILD, WILD_DRAW_FOUR}
                    \/ /\ top.rank \in {WILD, WILD_DRAW_FOUR}
                       /\ candidate.color = active_color \/ candidate.rank = top.rank
                    \/ /\ top.rank \notin {WILD, WILD_DRAW_FOUR}
                       /\ candidate.color = top.color \/ candidate.rank = top.rank

\* a non-wild card of the active colour was matched against a wild top card
C8_Witness ==
    /\ pc = "matches_returned"
    /\ ret = TRUE
    /\ ~is_wild(move.card.rank)
    /\ is_wild(Head(discard_pile).rank)
    /\ move.card.color = active_color

\* C10  Reshuffle stability: Deck.draw() on an empty draw pile and a discard
\* pile of 2 or more cards returns a card from below the top of the discard
\* pile, leaves the former top as the only card of the discard pile and puts
\* the other former discard cards into the draw pile; draw() returns no card
\* only when the draw pile is empty and the discard pile has at most 1 card.
C10_ReshuffleStability ==
    [][(pc = "deck" /\ pc' = "deck_drawn")
       => /\ (draw_pile = {} /\ Len(discard_pile) >= 2)
                => /\ ret' \in Range(Tail(discard_pile))
                   /\ discard_pile' = <<Head(discard_pile)>>
                   /\ ret' \notin draw_pile'
                   /\ draw_pile' \cup {ret'} = Range(Tail(discard_pile))
          /\ ret' = NoCard => (draw_pile = {} /\ Len(discard_pile) <= 1)]_vars

\* the first draw() of a deck that started with at most MaxDrawPile cards in
\* its draw pile returned a card and left more than that in the draw pile:
\* the discard pile was recycled
C10_Witness ==
    /\ pc = "deck_drawn"
    /\ turns = 1
    /\ ret # NoCard
    /\ Len(discard_pile) = 1
    /\ Cardinality(draw_pile) >= MaxDrawPile

\* the ranks that stack on a pending draw
StackRanks == {DRAW_TWO, WILD_DRAW_FOUR}

\* C11  Stacking requirement: while pending_draw > 0 no PLAY of a card whose
\* rank is neither DRAW_TWO nor WILD_DRAW_FOUR is processed, no such card
\* leaves the current player's hand, and a card that becomes the top of the
\* discard pile is a DRAW_TWO or a WILD_DRAW_FOUR.
C11_StackingEnforced ==
    [][(MoveStep /\ pending_draw > 0)
       => /\ move'.type = PLAY => move'.card.rank \in StackRanks
          /\ \A c \in hands[current_index] \ hands'[current_index] : c.rank \in StackRanks
          /\ Head(discard_pile') # Head(discard_pile)
                => Head(discard_pile').rank \in StackRanks]_vars

\* the first player answered the opening DRAW_TWO while holding a card that
\* matches it and does not stack: the move was INVALID, the penalty card was
\* drawn and the pending draw was passed on
C11_Witness ==
    /\ turns = 1
    /\ move.type = INVALID
    /\ pending_draw = 2
    /\ current_index = 1
    /\ Cardinality(hands[0]) = DealCount + 1
    /\ \E c \in hands[0] : /\ c.rank \notin StackRanks
                            /\ matches(c, Head(discard_pile), active_color)

\* C12  Active colour: whenever a move is asked for and the top of the discard
\* pile is not wild, active_color is the colour of that card, and every
\* non-wild card of the colour active_color matches the top of the discard
\* pile, so that a PLAY of it passes validation.
C12_ActiveColorTracksTop ==
    pc = "turn" =>
        LET top == Head(discard_pile)
        IN  /\ ~is_wild(top.rank) => active_color = top.color
            /\ \A c \in BuildCards :
                   (~is_wild(c.rank) /\ c.color = active_color)
                       => matches(c, top, active_color)

\* C13  A WILD_DRAW_FOUR that passes validation is challenged exactly when the
\* next player is an AggressiveAI or the move carries the flag.  Challenged:
\* the player or the next player makes a penalty draw and pending_draw keeps
\* its value.  Not challenged: no player draws, only the played card leaves
\* a hand, the draw pile is untouched, pending_draw grows by 4 and the turn
\* advances 1 step to the next player.
C13_UnchallengedWildDrawFour ==
    [][Plays(WILD_DRAW_FOUR)
       => LET me == current_index
              card == move'.card
          IN  IF ChallengeRaised
              THEN /\ pending_draw' = pending_draw
                   /\ current_index' = Opponent
                   /\ \/ /\ hands'[Opponent] = hands[Opponent]
                         /\ Cardinality(hands'[me]) = Cardinality(hands[me]) - 1 + Min(4, Available)
                      \/ /\ hands'[me] = hands[me] \ {card}
                         /\ Cardinality(hands'[Opponent])
                              = Cardinality(hands[Opponent]) + Min(6, Available)
              ELSE /\ hands' = [hands EXCEPT ![me] = hands[me] \ {card}]
                   /\ draw_pile' = draw_pile
                   /\ discard_pile' = <<card>> \o discard_pile
                   /\ pending_draw' = pending_draw + 4
                   /\ current_index' = Opponent]_vars

\* the AggressiveAI moved first and played a WILD_DRAW_FOUR without the flag
\* before the HumanPlayer: nobody drew and 4 cards are pending
C13_Witness ==
    /\ turns = 1
    /\ move.type = PLAY
    /\ move.card.rank = WILD_DRAW_FOUR
    /\ ~move.challenge
    /\ Head(discard_pile) = move.card
    /\ current_index = 0
    /\ pending_draw = 4
    /\ Cardinality(hands[0]) = DealCount
    /\ Cardinality(hands[1]) = DealCount - 1

\* the step processes a DRAW move made with nothing pending
DrawStep == MoveStep /\ move'.type = DRAW /\ pending_draw = 0

\* the deck can supply a card: the draw pile has one or the discard pile has
\* one below its top
CanSupply == draw_pile # {} \/ Len(discard_pile) >= 2

\* the cards the next Deck.draw can return
NextCards == IF draw_pile # {} THEN draw_pile ELSE Range(Tail(discard_pile))

\* current_index after k steps in direction d
Ahead(k, d) == (current_index + k * d) % player_count

\* color is the standard colour most held in hand, the first of RED, YELLOW,
\* GREEN, BLUE among equals
MostHeldFirst(color, hand) ==
    \E i \in 1..4 :
        /\ STANDARD[i] = color
        /\ \A j \in 1..4 : count_color(hand, STANDARD[j]) <= count_color(hand, color)
        /\ \A j \in 1..(i - 1) : count_color(hand, STANDARD[j]) < count_color(hand, color)

\* C14  A DRAW move with pending_draw = 0 takes 1 card from the deck when it
\* can supply one.  With no_mercy on and the card matching the top of the
\* discard pile and active_color, the card ends the turn on top of the
\* discard pile with the effect of its rank applied, a wild setting
\* active_color to the colour most held in the drawer's hand (the first of
\* RED, YELLOW, GREEN, BLUE among equals).  Otherwise the card joins the hand,
\* nothing is discarded and the turn advances 1 step.
C14_NoMercyAutoPlay ==
    [][(DrawStep /\ CanSupply)
       => LET me == current_index
              top == Head(discard_pile)
              played == Head(discard_pile')
              keeps == /\ direction' = direction
                       /\ active_color' = active_color
                       /\ pending_draw' = 0
              only_played == /\ hands' = hands
                             /\ discard_pile' = <<played>> \o
                                   (IF draw_pile # {} THEN discard_pile ELSE <<top>>)
          IN  \/ /\ \E c \in NextCards :
                        /\ ~(no_mercy /\ matches(c, top, active_color))
                        /\ hands' = [hands EXCEPT ![me] = hands[me] \cup {c}]
                        /\ draw_pile' = (IF draw_pile # {} THEN draw_pile
                                         ELSE Range(Tail(discard_pile))) \ {c}
                 /\ discard_pile' = IF draw_pile # {} THEN discard_pile ELSE <<top>>
                 /\ current_index' = Ahead(1, direction)
                 /\ keeps
              \/ /\ no_mercy
                 /\ played \in NextCards
                 /\ matches(played, top, active_color)
                 /\ hands[me] \subseteq hands'[me]
                 /\ CASE played.rank = SKIP ->
                            only_played /\ keeps /\ current_index' = Ahead(2, direction)
                      [] played.rank = REVERSE ->
                            /\ only_played
                            /\ direction' = -direction
                            /\ active_color' = active_color
                            /\ pending_draw' = 0
                            /\ current_index' = IF player_count = 2 THEN me
                                                ELSE Ahead(1, -direction)
                      [] played.rank = DRAW_TWO ->
                            /\ only_played
                            /\ direction' = direction
                            /\ active_color' = active_color
                            /\ pending_draw' = 2
                            /\ current_index' = Ahead(1, direction)
                      [] played.rank = WILD ->
                            /\ only_played
                            /\ direction' = direction
                            /\ MostHeldFirst(active_color', hands[me])
                            /\ pending_draw' = 0
                            /\ current_index' = Ahead(1, direction)
                      [] played.rank = WILD_DRAW_FOUR ->
                            /\ direction' = direction
                            /\ MostHeldFirst(active_color', hands[me])
                            /\ current_index' = Ahead(1, direction)
                            /\ IF IsAI(Opponent)
                               THEN pending_draw' = 0 /\ hands' # hands
                               ELSE pending_draw' = 4 /\ only_played
                      [] OTHER ->
                            only_played /\ keeps /\ current_index' = Ahead(1, direction)]_vars

\* the first player drew a WILD that was played at once: its hand is as it
\* was dealt and holds more YELLOW than RED, and YELLOW is the active colour
C14_Witness ==
    /\ turns = 1
    /\ no_mercy
    /\ move.type = DRAW
    /\ Len(discard_pile) = 2
    /\ Head(discard_pile).rank = WILD
    /\ Cardinality(hands[0]) = DealCount
    /\ count_color(hands[0], YELLOW) > count_color(hands[0], RED)
    /\ active_color = YELLOW
    /\ current_index = 1

\* C15  An INVALID move puts 1 card of the deck (if it can supply one) into
\* the current player's hand and advances current_index 1 step in the
\* current direction; direction, active_color, pending_draw, the top of the
\* discard pile and the other hands keep their values.
C15_InvalidMoveFrame ==
    [][(MoveStep /\ move'.type = INVALID)
       => LET me == current_index
              got == hands'[me] \ hands[me]
          IN  /\ hands[me] \subseteq hands'[me]
              /\ Cardinality(got) = Min(1, Available - 1)
              /\ CanSupply => got \subseteq NextCards
              /\ \A i \in Players \ {me} : hands'[i] = hands[i]
              /\ current_index' = Ahead(1, direction)
              /\ direction' = direction
              /\ active_color' = active_color
              /\ pending_draw' = pending_draw
              /\ Head(discard_pile') = Head(discard_pile)
              /\ pc' = "turn"]_vars

\* after an opening REVERSE the first player made an INVALID move: it holds
\* one card more and the turn went 1 step in direction -1
C15_Witness ==
    /\ turns = 1
    /\ move.type = INVALID
    /\ direction = -1
    /\ current_index = player_count - 1
    /\ Cardinality(hands[0]) = DealCount + 1
    /\ Head(discard_pile).rank = REVERSE

\* the step processes a PLAY that fails validation
Forfeits ==
    /\ MoveStep
    /\ move'.type = PLAY
    /\ \/ move'.card \notin hands[current_index]
       \/ ~matches(move'.card, Head(discard_pile), active_color)

\* C16  A PLAY of a card that is not in the current player's hand or does not
\* match the top of the discard pile and active_color advances current_index
\* 1 step in the current direction and changes nothing else: the hands, the
\* draw pile, the discard pile, active_color, direction and pending_draw keep
\* their values and the game goes on.
C16_ForfeitedPlay ==
    [][Forfeits
       => /\ hands' = hands
          /\ draw_pile' = draw_pile
          /\ discard_pile' = discard_pile
          /\ active_color' = active_color
          /\ direction' = direction
          /\ pending_draw' = pending_draw
          /\ current_index' = Ahead(1, direction)
          /\ pc' = "turn"]_vars

\* an AggressiveAI answered a pending draw with a DRAW_TWO that does not
\* match the WILD_DRAW_FOUR on top: the card is still in its hand, the draw
\* is still pending and the turn has passed on
C16_Witness ==
    /\ pc = "turn"
    /\ move.type = PLAY
    /\ move.card.rank = DRAW_TWO
    /\ Head(discard_pile).rank = WILD_DRAW_FOUR
    /\ move.card.color # active_color
    /\ pending_draw > 0
    /\ \E i \in Players \ {0} :
          /\ move.card \in hands[i]
          /\ current_index = (i + direction) % player_count

\* the deck cannot supply a card: the draw pile is empty and the discard pile
\* holds only its top card
Exhausted == draw_pile = {} /\ Len(discard_pile) = 1

\* C17  With the deck exhausted a DRAW move, the penalty draw of an INVALID
\* move and the absorption of a pending draw leave every hand and both piles
\* as they are, and a challenge against a WILD_DRAW_FOUR played then draws
\* the one card that the play put below the top and nothing after it; no
\* error arises, the next move is asked for, and the DRAW move with
\* pending_draw = 0 advances the turn 1 step.
C17_ExhaustionIsNoOp ==
    /\ [][(MoveStep /\ Exhausted /\ move'.type \in {DRAW, INVALID})
          => /\ hands' = hands
             /\ draw_pile' = draw_pile
             /\ discard_pile' = discard_pile
             /\ pc' = "turn"
             /\ (move'.type = INVALID \/ pending_draw = 0)
                   => /\ current_index' = Ahead(1, direction)
                      /\ pending_draw' = pending_draw]_vars
    /\ [][(Plays(WILD_DRAW_FOUR) /\ Exhausted /\ ChallengeRaised)
          => /\ \E i \in {current_index, Opponent} :
                   hands' = [hands EXCEPT ![current_index] = @ \ {move'.card}, ![i] = @ \cup {Head(discard_pile)}]
             /\ draw_pile' = {}
             /\ discard_pile' = <<move'.card>>
             /\ pc' = IF hands'[current_index] = {} THEN "over" ELSE "turn"]_vars
    /\ [](pc \in {"turn", "over"} => discard_pile # <<>>)

\* the first move of the short game was a DRAW made with nothing pending and
\* nothing to draw: the hands are as dealt and the turn advanced 1 step
C17_Witness ==
    /\ pc = "turn"
    /\ turns = 1
    /\ move.type = DRAW
    /\ Exhausted
    /\ pending_draw = 0
    /\ Head(discard_pile).rank = "ZERO"
    /\ \A i \in Players : Cardinality(hands[i]) = DealCount
    /\ current_index = 1

\* C18  The opening discard is not a wild card and active_color starts as its
\* colour.  When the first move is asked for, its effect has been applied
\* once and nothing else has happened: after a SKIP the first mover is the
\* player 1 step after index 0, after a REVERSE the direction is -1 and the
\* first mover is index 0, after a DRAW_TWO pending_draw is 2 and the first
\* mover is index 0, and after a numeric card current_index = 0,
\* direction = 1 and pending_draw = 0.
C18_InitialCardEffect ==
    LET start == Head(discard_pile)
        untouched == /\ current_index = 0
                     /\ direction = 1
                     /\ pending_draw = 0
    IN  /\ pc = "initial_effect"
              => ~is_wild(start.rank) /\ active_color = start.color /\ untouched
        /\ (pc = "turn" /\ turns = 0)
              => /\ ~is_wild(start.rank)
                 /\ active_color = start.color
                 /\ \A i \in Players : Cardinality(hands[i]) = DealCount
                 /\ CASE start.rank = SKIP ->
                            /\ current_index = 1 % player_count
                            /\ direction = 1
                            /\ pending_draw = 0
                      [] start.rank = REVERSE ->
                            /\ current_index = 0
                            /\ direction = -1
                            /\ pending_draw = 0
                      [] start.rank = DRAW_TWO ->
                            /\ current_index = 0
                            /\ direction = 1
                            /\ pending_draw = 2
                      [] OTHER ->
                            /\ start.rank \in Range(NUMBERS)
                            /\ untouched

\* the opening discard is a SKIP that was drawn after a wild card, and the
\* first move is asked of player 1
C18_Witness ==
    /\ pc = "turn"
    /\ turns = 0
    /\ Head(discard_pile).rank = SKIP
    /\ Len(discard_pile) >= 2
    /\ is_wild(discard_pile[2].rank)
    /\ current_index = 1

\* the step processes a PLAY of a numeric card that passes validation
PlaysNumber == \E r \in Range(NUMBERS) : Plays(r)

\* C19  With 3 or more players: a SKIP keeps the direction and moves the turn
\* 2 steps ahead, passing over exactly one player; a REVERSE negates the
\* direction and moves the turn 1 step in the new direction, to the player
\* before the one who played; a numeric card, a DRAW_TWO and a WILD keep the
\* direction and move the turn 1 step; current_index is always one of
\* 0..n-1 and direction one of 1, -1.
C19_TurnOrder ==
    /\ [][(player_count >= 3 /\ Plays(SKIP))
          => /\ direction' = direction
             /\ current_index' = Ahead(2, direction)
             /\ current_index' \notin {current_index, Ahead(1, direction)}]_vars
    /\ [][(player_count >= 3 /\ Plays(REVERSE))
          => /\ direction' = -direction
             /\ current_index' = Ahead(1, -direction)
             /\ current_index' \notin {current_index, Ahead(1, direction)}]_vars
    /\ [][(player_count >= 3 /\ (PlaysNumber \/ Plays(DRAW_TWO) \/ Plays(WILD)))
          => /\ direction' = direction
             /\ current_index' = Ahead(1, direction)]_vars
    /\ [](current_index \in 0..(player_count - 1) /\ direction \in {1, -1})

\* in a game of 3 players the first player played a REVERSE: the direction
\* is -1 and the turn is with the last player
C19_Witness ==
    /\ player_count = 3
    /\ turns = 1
    /\ move.type = PLAY
    /\ move.card.rank = REVERSE
    /\ Head(discard_pile) = move.card
    /\ direction = -1
    /\ current_index = 2

\* C20  A DRAW move, with or without a pending draw and with or without an
\* auto-played card, takes no card of the current player's hand away, so the
\* hand is at least as large after it and the game goes on; the game is over
\* only after a PLAY move.
C20_DrawNeverWins ==
    /\ [][(MoveStep /\ move'.type = DRAW)
          => /\ hands[current_index] \subseteq hands'[current_index]
             /\ Cardinality(hands'[current_index]) >= Cardinality(hands[current_index])
             /\ hands'[current_index] # {}
             /\ pc' = "turn"]_vars
    /\ [](pc = "over" => move.type = PLAY)

\* the first move was a DRAW whose card, a WILD_DRAW_FOUR, was played at once
\* and challenged: a penalty was drawn and the game goes on
C20_Witness ==
    /\ pc = "turn"
    /\ turns = 1
    /\ move.type = DRAW
    /\ Head(discard_pile).rank = WILD_DRAW_FOUR
    /\ pending_draw = 0
    /\ Cardinality(hands[0]) >= DealCount
    /\ \E i \in Players : Cardinality(hands[i]) > DealCount

====
